---------------------------- MODULE Spec2Model ----------------------------
(***************************************************************************)
(* Model of password_strength.py: the leet normaliser, the pattern        *)
(* detector, the HIBP k-anonymity breach check, the masked log line and   *)
(* the three-stage scoring ladder of check_strength.                      *)
(*                                                                         *)
(* A Python str is a sequence of one-character strings; the characters    *)
(* are the printable ASCII characters plus "\n" and "\r" (response bodies).*)
(***************************************************************************)
EXTENDS Integers, Sequences, FiniteSets, TLC

(***************************************************************************)
(* Characters                                                              *)
(***************************************************************************)
UPPER == <<"A","B","C","D","E","F","G","H","I","J","K","L","M",
           "N","O","P","Q","R","S","T","U","V","W","X","Y","Z">>

LOWER == <<"a","b","c","d","e","f","g","h","i","j","k","l","m",
           "n","o","p","q","r","s","t","u","v","w","x","y","z">>

DIGITS == <<"0","1","2","3","4","5","6","7","8","9">>

\* Printable ASCII in code-point order: ASCII[i] is chr(31 + i).  The grave
\* accent chr(96), which a TLA+ string cannot hold, is the atom "GRAVE".
ASCII == <<" ","!","\"","#","$","%","&","'","(",")","*","+",",","-",".","/",
           "0","1","2","3","4","5","6","7","8","9",":",";","<","=",">","?",
           "@","A","B","C","D","E","F","G","H","I","J","K","L","M","N","O",
           "P","Q","R","S","T","U","V","W","X","Y","Z","[","\\","]","^","_",
           "GRAVE","a","b","c","d","e","f","g","h","i","j","k","l","m","n","o",
           "p","q","r","s","t","u","v","w","x","y","z","{","|","}","~">>

Range(s) == { s[i] : i \in 1..Len(s) }

IndexOf(c, s) == CHOOSE i \in 1..Len(s) : s[i] = c

\* ord(c), and with it the single UTF-8 byte of an ASCII character.
Ord(c) == IF c = "\n" THEN 10
          ELSE IF c = "\r" THEN 13
          ELSE 31 + IndexOf(c, ASCII)

IsUpper(c) == c \in Range(UPPER)
IsLower(c) == c \in Range(LOWER)
IsDigit(c) == c \in Range(DIGITS)
IsSpace(c) == c \in {" ", "\n", "\r"}

LowerChar(c) == IF IsUpper(c) THEN LOWER[IndexOf(c, UPPER)] ELSE c
UpperChar(c) == IF IsLower(c) THEN UPPER[IndexOf(c, LOWER)] ELSE c

\* str.lower(), str.upper()
Lower(s) == [i \in 1..Len(s) |-> LowerChar(s[i])]
Upper(s) == [i \in 1..Len(s) |-> UpperChar(s[i])]

\* str.strip(): leading and trailing whitespace removed.
Strip(s) ==
    LET keep == { i \in 1..Len(s) : ~IsSpace(s[i]) }
    IN  IF keep = {} THEN <<>>
        ELSE LET lo == CHOOSE i \in keep : \A j \in keep : i <= j
                 hi == CHOOSE i \in keep : \A j \in keep : j <= i
             IN  SubSeq(s, lo, hi)

\* `sub in s` for strings.
Contains(s, sub) ==
    \E i \in 1..(Len(s) - Len(sub) + 1) : SubSeq(s, i, i + Len(sub) - 1) = sub

\* n copies of character c.
Repeat(c, n) == [i \in 1..n |-> c]

(***************************************************************************)
(* hashlib.sha1 (FIPS 180-4) on messages of at most 55 bytes (one block).  *)
(* A 32-bit word is the pair <<hi, lo>> of its 16-bit halves.              *)
(***************************************************************************)
RECURSIVE Xor16(_, _), And16(_, _)
Xor16(a, b) == IF a = 0 THEN b
               ELSE IF b = 0 THEN a
               ELSE ((a + b) % 2) + 2 * Xor16(a \div 2, b \div 2)
And16(a, b) == IF a = 0 \/ b = 0 THEN 0
               ELSE ((a % 2) * (b % 2)) + 2 * And16(a \div 2, b \div 2)

Xor(a, b) == <<Xor16(a[1], b[1]), Xor16(a[2], b[2])>>
And(a, b) == <<And16(a[1], b[1]), And16(a[2], b[2])>>
Not(a)    == <<65535 - a[1], 65535 - a[2]>>
\* a | b = (a ^ b) + (a & b), halves never overflow 16 bits
Or(a, b)  == <<Xor16(a[1], b[1]) + And16(a[1], b[1]),
               Xor16(a[2], b[2]) + And16(a[2], b[2])>>

\* Rotate left by n bits, 0 <= n < 32.
Rotl(a, n) ==
    LET x == IF n >= 16 THEN <<a[2], a[1]>> ELSE a
        k == n % 16
    IN  << ((x[1] * (2^k)) % 65536) + (x[2] \div (2^(16 - k))),
           ((x[2] * (2^k)) % 65536) + (x[1] \div (2^(16 - k))) >>

\* Sum modulo 2^32 of the words of the sequence ws (at most 5 of them).
RECURSIVE SumHalf(_, _)
SumHalf(ws, h) == IF ws = <<>> THEN 0 ELSE Head(ws)[h] + SumHalf(Tail(ws), h)
Add(ws) ==
    LET lo == SumHalf(ws, 2)
        hi == SumHalf(ws, 1) + (lo \div 65536)
    IN  <<hi % 65536, lo % 65536>>

\* The padded 64-byte block of a message of at most 55 bytes.
Pad(bytes) ==
    LET n == Len(bytes)
    IN  [i \in 1..64 |->
            IF i <= n THEN bytes[i]
            ELSE IF i = n + 1 THEN 128
            ELSE IF i = 63 THEN (8 * n) \div 256
            ELSE IF i = 64 THEN (8 * n) % 256
            ELSE 0]

\* The 16 big-endian words of a block.
BlockWords(blk) ==
    [t \in 1..16 |-> <<blk[4*t - 3] * 256 + blk[4*t - 2],
                       blk[4*t - 1] * 256 + blk[4*t]>>]

\* The message schedule, extended from 16 to 80 words.
RECURSIVE Schedule(_)
Schedule(w) ==
    IF Len(w) = 80 THEN w
    ELSE LET t == Len(w) + 1
         IN  Schedule(Append(w,
                 Rotl(Xor(Xor(w[t-3], w[t-8]), Xor(w[t-14], w[t-16])), 1)))

\* 67452301 EFCDAB89 98BADCFE 10325476 C3D2E1F0
SHA1_H0 == << <<26437, 8961>>, <<61389, 43913>>, <<39098, 56574>>,
              <<4146, 21622>>, <<50130, 57840>> >>

\* 5A827999 6ED9EBA1 8F1BBCDC CA62C1D6
SHA1_K(t) == IF t <= 20 THEN <<23170, 31129>>
             ELSE IF t <= 40 THEN <<28377, 60321>>
             ELSE IF t <= 60 THEN <<36635, 48348>>
             ELSE <<51810, 49622>>

SHA1_F(t, b, c, d) ==
    IF t <= 20 THEN Or(And(b, c), And(Not(b), d))
    ELSE IF t <= 40 THEN Xor(Xor(b, c), d)
    ELSE IF t <= 60 THEN Or(Or(And(b, c), And(b, d)), And(c, d))
    ELSE Xor(Xor(b, c), d)

\* One round: the working variables h = <<a, b, c, d, e>> after round t.
Round(t, w, h) ==
    << Add(<<Rotl(h[1], 5), SHA1_F(t, h[2], h[3], h[4]), h[5], SHA1_K(t), w[t]>>),
       h[1], Rotl(h[2], 30), h[3], h[4] >>

\* hs[t + 1] is the working variables after t rounds; all 80 rounds are run.
RECURSIVE Rounds(_, _)
Rounds(w, hs) ==
    IF Len(hs) = 81 THEN hs[81]
    ELSE Rounds(w, Append(hs, Round(Len(hs), w, hs[Len(hs)])))

HEXDIGITS == <<"0","1","2","3","4","5","6","7","8","9","a","b","c","d","e","f">>

Hex16(n) == << HEXDIGITS[1 + (n \div 4096)], HEXDIGITS[1 + ((n \div 256) % 16)],
               HEXDIGITS[1 + ((n \div 16) % 16)], HEXDIGITS[1 + (n % 16)] >>

WordHex(w) == Hex16(w[1]) \o Hex16(w[2])

\* hashlib.sha1(bytes).hexdigest(): 40 lowercase hex characters.
Sha1Hex(bytes) ==
    LET h == Rounds(Schedule(BlockWords(Pad(bytes))), <<SHA1_H0>>)
        r == [i \in 1..5 |-> Add(<<SHA1_H0[i], h[i]>>)]
    IN  WordHex(r[1]) \o WordHex(r[2]) \o WordHex(r[3]) \o WordHex(r[4])
          \o WordHex(r[5])

\* str.encode("utf-8") of an ASCII string.
EncodeUtf8(s) == [i \in 1..Len(s) |-> Ord(s[i])]

(***************************************************************************)
(* Configuration and rule sets                                             *)
(***************************************************************************)
\* The base URL is one atom: nothing in the program looks inside it.
HIBP_RANGE_API == "https://api.pwnedpasswords.com/range/"
USER_AGENT == "PasswordAnalyzer/1.0 (your-email@example.com)"
LOG_ENABLED == TRUE
REQUEST_TIMEOUT == 10

COMMON_PASSWORDS ==
    { <<"1","2","3","4","5","6">>,
      <<"p","a","s","s","w","o","r","d">>,
      <<"1","2","3","4","5","6","7","8">>,
      <<"q","w","e","r","t","y">>,
      <<"a","b","c","1","2","3">>,
      <<"p","a","s","s","w","o","r","d","1">>,
      <<"1","1","1","1","1","1">>,
      <<"1","2","3","4","5","6","7","8","9">>,
      <<"1","2","3","4","5">>,
      <<"1","2","3","4">> }

BANNED_SUBSTRINGS ==
    { <<"p","a","s","s","w","o","r","d">>,
      <<"p","a","s","s">>,
      <<"a","d","m","i","n">>,
      <<"q","w","e","r","t","y">>,
      <<"l","e","t","m","e","i","n">>,
      <<"w","e","l","c","o","m","e">> }

\* The table without its "!" entry.
LEET_MAP_NoBang(c) ==
    CASE c = "@" -> "a"
      [] c = "0" -> "o"
      [] c = "1" -> "l"
      [] c = "3" -> "e"
      [] c = "$" -> "s"
      [] c = "5" -> "s"
      [] c = "7" -> "t"
      [] c = "4" -> "a"
      [] OTHER   -> c

\* str.maketrans table: characters not listed map to themselves.
LEET_MAP(c) ==
    CASE c = "@" -> "a"
      [] c = "0" -> "o"
      [] c = "1" -> "l"
      [] c = "3" -> "e"
      [] c = "$" -> "s"
      [] c = "5" -> "s"
      [] c = "7" -> "t"
      [] c = "4" -> "a"
      [] c = "!" -> "i"
      [] OTHER   -> c

(***************************************************************************)
(* Utility functions                                                       *)
(***************************************************************************)
mask_password_for_log(pw) ==
    IF pw = <<>> THEN <<>>
    ELSE IF Len(pw) <= 2 THEN <<pw[1]>> \o Repeat("*", Len(pw) - 1)
    ELSE <<pw[1]>> \o Repeat("*", Len(pw) - 2) \o <<pw[Len(pw)]>>

IsAsciiLetter(c) == IsUpper(c) \/ IsLower(c)

\* re.sub(r"[^a-zA-Z]", "", s): s without its non-letters, order kept.
RECURSIVE RemoveNonLetters(_)
RemoveNonLetters(s) ==
    IF s = <<>> THEN <<>>
    ELSE (IF IsAsciiLetter(Head(s)) THEN <<Head(s)>> ELSE <<>>)
           \o RemoveNonLetters(Tail(s))

normalise_leet(pw) ==
    LET translated == [i \in 1..Len(pw) |-> LEET_MAP(pw[i])]
        alpha_core == Lower(RemoveNonLetters(translated))
    IN  alpha_core

SEQUENCES ==
    { <<"1","2","3","4">>, <<"2","3","4","5">>, <<"3","4","5","6">>,
      <<"4","5","6","7">>, <<"5","6","7","8">>, <<"6","7","8","9">>,
      <<"7","8","9","0">>, <<"q","w","e","r">>, <<"a","s","d","f">>,
      <<"z","x","c","v">>, <<"a","b","c","d">>,
      <<"p","a","s","s","w","o","r","d">> }

is_obvious_sequence(pw) ==
    \* re.search(r"\d{3,}", pw)
    \/ \E i \in 1..(Len(pw) - 2) :
          IsDigit(pw[i]) /\ IsDigit(pw[i+1]) /\ IsDigit(pw[i+2])
    \* re.search(r"(.)\1\1", pw): "." matches anything but a newline
    \/ \E i \in 1..(Len(pw) - 2) :
          pw[i] # "\n" /\ pw[i+1] = pw[i] /\ pw[i+2] = pw[i]
    \/ \E sq \in SEQUENCES : Contains(Lower(pw), sq)

is_common_variant(password) ==
    LET pw_lower == Strip(Lower(password))
        core     == normalise_leet(password)
    IN  \/ pw_lower \in COMMON_PASSWORDS
        \/ core # <<>> /\ core \in COMMON_PASSWORDS
        \/ \E sub \in BANNED_SUBSTRINGS : Contains(core, sub)
        \/ is_obvious_sequence(password)

(***************************************************************************)
(* HIBP k-anonymity check                                                  *)
(***************************************************************************)
\* Python's None and an int n, as values TLC can compare with each other.
None == <<>>
Count(n) == <<n>>

IsLineBreak(c) == c \in {"\n", "\r"}

\* str.splitlines(): "\n", "\r" and "\r\n" end a line; no empty last line.
RECURSIVE SplitLines(_)
SplitLines(s) ==
    IF s = <<>> THEN <<>>
    ELSE LET brk == { i \in 1..Len(s) : IsLineBreak(s[i]) }
         IN  IF brk = {} THEN <<s>>
             ELSE LET k == CHOOSE i \in brk : \A j \in brk : i <= j
                      e == IF s[k] = "\r" /\ k < Len(s) /\ s[k+1] = "\n"
                           THEN k + 1 ELSE k
                  IN  <<SubSeq(s, 1, k - 1)>> \o SplitLines(SubSeq(s, e + 1, Len(s)))

\* str.split(':'): the parts between the colons, at least one part.
RECURSIVE SplitColon(_)
SplitColon(s) ==
    LET cols == { i \in 1..Len(s) : s[i] = ":" }
    IN  IF cols = {} THEN <<s>>
        ELSE LET k == CHOOSE i \in cols : \A j \in cols : i <= j
             IN  <<SubSeq(s, 1, k - 1)>> \o SplitColon(SubSeq(s, k + 1, Len(s)))

\* int(s) accepts an optional sign, then digits with single underscores
\* between them; anything else raises ValueError.
IntDigits(s) == IF s # <<>> /\ Head(s) \in {"+", "-"} THEN Tail(s) ELSE s

IntAccepts(s) ==
    LET d == IntDigits(Strip(s))
    IN  /\ d # <<>>
        /\ \A i \in 1..Len(d) : IsDigit(d[i]) \/ d[i] = "_"
        /\ IsDigit(d[1]) /\ IsDigit(d[Len(d)])
        /\ \A i \in 1..(Len(d) - 1) : ~(d[i] = "_" /\ d[i+1] = "_")

RECURSIVE DigitsValue(_, _)
DigitsValue(d, acc) ==
    IF d = <<>> THEN acc
    ELSE IF Head(d) = "_" THEN DigitsValue(Tail(d), acc)
    ELSE DigitsValue(Tail(d), 10 * acc + (IndexOf(Head(d), DIGITS) - 1))

IntValue(s) ==
    LET t == Strip(s)
        v == DigitsValue(IntDigits(t), 0)
    IN  IF Head(t) = "-" THEN 0 - v ELSE v

\* The for loop over resp.text.splitlines(): the first well-formed line
\* whose suffix matches decides; no such line gives 0.
RECURSIVE ScanLines(_, _)
ScanLines(lines, suffix) ==
    IF lines = <<>> THEN Count(0)
    ELSE LET parts == SplitColon(Head(lines))
         IN  IF Len(parts) # 2 THEN ScanLines(Tail(lines), suffix)
             ELSE LET returned_suffix == Strip(parts[1])
                      count           == Strip(parts[2])
                  IN  IF Upper(returned_suffix) = suffix
                      THEN IF IntAccepts(count) THEN Count(IntValue(count))
                           ELSE Count(1)
                      ELSE ScanLines(Tail(lines), suffix)

\* hashlib.sha1(password.encode("utf-8")).hexdigest().upper()
Sha1Upper(password) == Upper(Sha1Hex(EncodeUtf8(password)))
Prefix(sha1) == SubSeq(sha1, 1, 5)
Suffix(sha1) == SubSeq(sha1, 6, Len(sha1))

\* A request whose URL carries the whole digest.
PwnedRequest_FullHash(sha1, user_agent) ==
    [ url     |-> <<HIBP_RANGE_API>> \o sha1,
      headers |-> [UserAgent |-> user_agent],
      timeout |-> REQUEST_TIMEOUT ]

\* The arguments of requests.get in check_pwned.
PwnedRequest(sha1, user_agent) ==
    [ url     |-> <<HIBP_RANGE_API>> \o Prefix(sha1),
      headers |-> [UserAgent |-> user_agent],
      timeout |-> REQUEST_TIMEOUT ]

\* The outcomes of requests.get: a RequestException, or a response.
IsRequestException(resp) == resp.kind \in {"Timeout", "ConnectionError"}

\* check_pwned without its test of the status code.
PwnedResult_IgnoresStatus(sha1, resp) ==
    IF IsRequestException(resp) THEN None
    ELSE ScanLines(SplitLines(resp.text), Suffix(sha1))

\* What check_pwned returns once requests.get has ended with resp.
PwnedResult(sha1, resp) ==
    IF IsRequestException(resp) THEN None
    ELSE IF resp.status_code # 200 THEN None
    ELSE ScanLines(SplitLines(resp.text), Suffix(sha1))

(***************************************************************************)
(* Safe logging                                                            *)
(***************************************************************************)
RECURSIVE NatToStr(_)
NatToStr(n) == IF n < 10 THEN <<DIGITS[n + 1]>>
               ELSE NatToStr(n \div 10) \o <<DIGITS[(n % 10) + 1]>>

\* str(n) for an int
IntToStr(n) == IF n < 0 THEN <<"-">> \o NatToStr(0 - n) ELSE NatToStr(n)

UNKNOWN == <<"u","n","k","n","o","w","n">>

\* log_result writing a pwned_count of None as 0.
log_result_NoneAsZero(masked_pw, score, strength_label, pwned_count) ==
    LET pwned_str == IF pwned_count = None THEN IntToStr(0)
                     ELSE IntToStr(pwned_count[1])
    IN  [ masked_pw      |-> masked_pw,
          score          |-> IntToStr(score) \o <<"/","1","0">>,
          strength_label |-> strength_label,
          pwned          |-> <<"p","w","n","e","d",":">> \o pwned_str ]

\* The fields of the line log_result writes, the timestamp left out.
log_result(masked_pw, score, strength_label, pwned_count) ==
    LET pwned_str == IF pwned_count = None THEN UNKNOWN
                     ELSE IntToStr(pwned_count[1])
    IN  [ masked_pw      |-> masked_pw,
          score          |-> IntToStr(score) \o <<"/","1","0">>,
          strength_label |-> strength_label,
          pwned          |-> <<"p","w","n","e","d",":">> \o pwned_str ]

(***************************************************************************)
(* Main scoring function                                                   *)
(***************************************************************************)
\* The labels and tips without their leading emoji.  What check_strength
\* prints (the report, the warning) changes no state and is left out.
LABEL_COMMON   == "Very Weak (common or predictable pattern detected)"
LABEL_BREACHED == "Very Weak (found in data breaches)"
LABEL_STRONG   == "Strong"
LABEL_MODERATE == "Moderate"
LABEL_WEAK     == "Weak"

TIP_LENGTH  == "Password too short (minimum 8 characters)."
TIP_UPPER   == "Add at least one uppercase letter (A-Z)."
TIP_LOWER   == "Add at least one lowercase letter (a-z)."
TIP_DIGIT   == "Add at least one number (0-9)."
TIP_SPECIAL == "Add at least one special character (!,@,#,$, etc)."

\* The character class of the fifth rule: !@#$%^&*(),.?":{}|<>~`+=_-
SPECIALS == {"!","@","#","$","%","^","&","*","(",")",",",".","?","\"",":",
             "{","}","|","<",">","~","GRAVE","+","=","_","-"}

Search(password, class) == \E i \in 1..Len(password) : password[i] \in class

\* The length rule's points, a password of 8-11 characters earning none.
LengthPoints_TwelveOnly(password) ==
    IF Len(password) >= 12 THEN 2 ELSE 0

\* The points of the length rule.
LengthPoints(password) ==
    IF Len(password) >= 12 THEN 2
    ELSE IF Len(password) >= 8 THEN 1 ELSE 0

\* The accumulated score left as it is, odd or even.
RoundToEven_Skipped(score) == score

\* if score % 2 == 1: score += 1
RoundToEven(score) == IF score % 2 = 1 THEN score + 1 ELSE score

Label(score) == IF score >= 9 THEN LABEL_STRONG
                ELSE IF score >= 6 THEN LABEL_MODERATE
                ELSE LABEL_WEAK

\* Stage 3 of check_strength: the scoring rules, the rounding and the label.
ScoringRules(password) ==
    LET f1 == IF Len(password) >= 8 THEN <<>> ELSE <<TIP_LENGTH>>
        up == Search(password, Range(UPPER))
        lo == Search(password, Range(LOWER))
        dg == Search(password, Range(DIGITS))
        sp == Search(password, SPECIALS)
        s5 == LengthPoints(password)
                 + (IF up THEN 2 ELSE 0) + (IF lo THEN 2 ELSE 0)
                 + (IF dg THEN 2 ELSE 0) + (IF sp THEN 2 ELSE 0)
        feedback == f1 \o (IF up THEN <<>> ELSE <<TIP_UPPER>>)
                       \o (IF lo THEN <<>> ELSE <<TIP_LOWER>>)
                       \o (IF dg THEN <<>> ELSE <<TIP_DIGIT>>)
                       \o (IF sp THEN <<>> ELSE <<TIP_SPECIAL>>)
        score == RoundToEven(s5)
    IN  [score |-> score, strength_label |-> Label(score),
         feedback |-> feedback]

(***************************************************************************)
(* Inputs                                                                  *)
(***************************************************************************)
MaxLen == 2
MaxLines == 2

GenAlphabet == {"a", "Z", "1", "*"}

\* Every string over GenAlphabet of at most MaxLen characters.
ShortPasswords == UNION { [1..n -> GenAlphabet] : n \in 0..MaxLen }

SamplePasswords ==
    { <<"P","@","$","$","w","0","r","d","!">>,
      <<"P","@","$","$","w","0","r","d">>,
      <<"1","2","3","4","5","6">>,
      <<" ","Q","w","e","r","t","y"," ">>,
      <<"a","a","a","a","a","a","a","a">>,
      <<"4","d","m","!","n">>,
      <<"a","s","D","F">>,
      <<"T","r","0","u","b","4","d","o","r","&","3","x","y","z","!">>,
      <<"s","h","o","r","t","1">>,
      <<"X","y","7","!","k","L","m","9">>,
      <<"c","o","r","r","e","c","t","h","o">>,
      <<"h","o","r","s","e","b","a","t","t","e","r","y">>,
      <<"H","O","R","S","E","-","B","A","T","T","E","R","Y">>,
      <<"a","*","*","b">>,
      \* two passwords whose SHA-1 digests share the prefix 55BE9
      <<"d","t","q">>,
      <<"d","v","e">> }

Passwords == SamplePasswords \cup ShortPasswords

\* A suffix no modelled password has.
OTHER_SUFFIX == Repeat("0", 35)

\* The lines a response body is made of, for the password whose digest is
\* sha1: well-formed records (matching or not, with a count that is
\* positive, zero, negative or not a number) and malformed lines.
Lines(sha1) ==
    LET sfx == Suffix(sha1)
    IN  { sfx \o <<":","5">>,
          Lower(sfx) \o <<" ",":"," ","0"," ">>,
          sfx \o <<":","-","3">>,
          sfx \o <<":","a","b","c">>,
          OTHER_SUFFIX \o <<":","7">>,
          <<"o","o","p","s">>,
          sfx \o <<":","1",":","2">> }

\* The lines ls joined by "\r\n", as the service sends them.
RECURSIVE JoinLines(_)
JoinLines(ls) ==
    IF ls = <<>> THEN <<>>
    ELSE IF Len(ls) = 1 THEN ls[1]
    ELSE ls[1] \o <<"\r","\n">> \o JoinLines(Tail(ls))

Bodies(sha1) ==
    { JoinLines(ls) : ls \in UNION { [1..n -> Lines(sha1)] : n \in 0..MaxLines } }

RequestExceptions == {"Timeout", "ConnectionError"}
ErrorStatuses == {404, 503}

(***************************************************************************)
(* State                                                                   *)
(***************************************************************************)
VARIABLES
    pc,              \* "start", "awaiting" (inside requests.get), "done"
    password,        \* the argument of check_strength
    use_hibp,        \* the argument of check_strength
    sha1,            \* check_pwned's digest, <<>> before it is computed
    requests,        \* the requests sent to the breach service
    response,        \* how requests.get ended
    pwned_count,     \* check_strength's pwned_count
    stage,           \* the return taken: "empty", "A", "B", "C"
    score,
    strength_label,
    feedback,
    log              \* the lines appended to LOG_FILE

vars == <<pc, password, use_hibp, sha1, requests, response, pwned_count,
          stage, score, strength_label, feedback, log>>

Init ==
    /\ pc = "start"
    /\ password = <<>>
    /\ use_hibp = TRUE
    /\ sha1 = <<>>
    /\ requests = <<>>
    /\ response = [kind |-> "none"]
    /\ pwned_count = None
    /\ stage = "none"
    /\ score = 0
    /\ strength_label = ""
    /\ feedback = <<>>
    /\ log = <<>>

\* log_result's write: the line is appended, or open/write raised and the
\* exception was swallowed.
WriteLog(line) ==
    \E written \in BOOLEAN : log' = IF LOG_ENABLED /\ written THEN Append(log, line) ELSE log

\* check_strength("") prints "No password entered." and returns.
NoPassword(pw, hibp) ==
    /\ pc = "start"
    /\ pw = <<>>
    /\ pc' = "done"
    /\ password' = pw
    /\ use_hibp' = hibp
    /\ stage' = "empty"
    /\ UNCHANGED <<sha1, requests, response, pwned_count, score,
                   strength_label, feedback, log>>

\* 1) common-variant check: score 0, logged with a pwned count of 0.
StageA(pw, hibp) ==
    /\ pc = "start"
    /\ pw # <<>>
    /\ is_common_variant(pw)
    /\ pc' = "done"
    /\ password' = pw
    /\ use_hibp' = hibp
    /\ stage' = "A"
    /\ strength_label' = LABEL_COMMON
    /\ score' = 0
    /\ WriteLog(log_result(mask_password_for_log(pw), 0, LABEL_COMMON, Count(0)))
    /\ UNCHANGED <<sha1, requests, response, pwned_count, feedback>>

\* 3) scoring rules, and the log line that ends check_strength.
StageC(pw, pwned) ==
    LET r == ScoringRules(pw)
    IN  /\ pc' = "done"
        /\ stage' = "C"
        /\ score' = r.score
        /\ strength_label' = r.strength_label
        /\ feedback' = r.feedback
        /\ WriteLog(log_result(mask_password_for_log(pw), r.score,
                               r.strength_label, pwned))

\* The branch taken on a pwned_count that is an int above 0.
StageB(pw, pwned) ==
    /\ pc' = "done"
    /\ stage' = "B"
    /\ strength_label' = LABEL_BREACHED
    /\ score' = 0
    /\ WriteLog(log_result(mask_password_for_log(pw), 0, LABEL_BREACHED, pwned))
    /\ UNCHANGED feedback

\* check_strength from the value check_pwned returned to its end.
AfterCheckPwned(pw, pwned) ==
    /\ pwned_count' = pwned
    /\ IF pwned # None /\ pwned[1] > 0
       THEN StageB(pw, pwned)
       ELSE StageC(pw, pwned)

\* use_hibp false: pwned_count stays None and the scoring rules run.
LocalOnly(pw, hibp) ==
    /\ pc = "start"
    /\ pw # <<>>
    /\ ~is_common_variant(pw)
    /\ ~hibp
    /\ password' = pw
    /\ use_hibp' = hibp
    /\ StageC(pw, None)
    /\ UNCHANGED <<sha1, requests, response, pwned_count>>

\* The HIBP check made without the common-variant check before it.
SendRequest_BeforeStageA(pw, hibp) ==
    /\ pc = "start"
    /\ pw # <<>>
    /\ hibp
    /\ password' = pw
    /\ use_hibp' = hibp
    /\ sha1' = Sha1Upper(pw)
    /\ requests' = Append(requests, PwnedRequest(sha1', USER_AGENT))
    /\ pc' = "awaiting"
    /\ UNCHANGED <<response, pwned_count, stage, score, strength_label,
                   feedback, log>>

\* 2) optional HIBP check: check_pwned up to its call of requests.get.
SendRequest(pw, hibp) ==
    /\ pc = "start"
    /\ pw # <<>>
    /\ ~is_common_variant(pw)
    /\ hibp
    /\ password' = pw
    /\ use_hibp' = hibp
    /\ sha1' = Sha1Upper(pw)
    /\ requests' = Append(requests, PwnedRequest(sha1', USER_AGENT))
    /\ pc' = "awaiting"
    /\ UNCHANGED <<response, pwned_count, stage, score, strength_label,
                   feedback, log>>

\* requests.get ends with resp; check_pwned returns and check_strength
\* runs to its end.
RequestEnds(resp) ==
    /\ pc = "awaiting"
    /\ response' = resp
    /\ AfterCheckPwned(password, PwnedResult(sha1, resp))
    /\ UNCHANGED <<password, use_hibp, sha1, requests>>

\* requests.get raises a RequestException (a timeout, a connection error).
RequestFails ==
    \E k \in RequestExceptions : RequestEnds([kind |-> k])

\* The service answers with a status other than 200.
ResponseNot200 ==
    \E st \in ErrorStatuses, b \in {<<>>, Suffix(sha1) \o <<":","5">>} :
        RequestEnds([kind |-> "Response", status_code |-> st, text |-> b])

\* The service answers 200 with some body.
Response200 ==
    \E b \in Bodies(sha1) :
        RequestEnds([kind |-> "Response", status_code |-> 200, text |-> b])

check_strength(pw, hibp) ==
    \/ NoPassword(pw, hibp)
    \/ StageA(pw, hibp)
    \/ LocalOnly(pw, hibp)
    \/ SendRequest(pw, hibp)

Next ==
    \/ \E pw \in Passwords, hibp \in BOOLEAN : check_strength(pw, hibp)
    \/ RequestFails
    \/ ResponseNot200
    \/ Response200

Spec == Init /\ [][Next]_vars

(***************************************************************************)
(* Properties                                                              *)
(***************************************************************************)
Done == pc = "done"

\* The response is what requests.get gave check_pwned in this evaluation.
Answered == Done /\ response.kind # "none"

Is200(resp) == resp.kind = "Response" /\ resp.status_code = 200

\* A line with the SUFFIX:COUNT shape: two colon-separated fields.
IsRecord(line) == Len(SplitColon(line)) = 2

RecordMatches(line, sfx) ==
    IsRecord(line) /\ Upper(Strip(SplitColon(line)[1])) = sfx

\* A body that has lines, none of them a SUFFIX:COUNT record.
MalformedBody(text) ==
    LET lines == SplitLines(text)
    IN  lines # <<>> /\ \A i \in 1..Len(lines) : ~IsRecord(lines[i])

\* The remote check failed: transport error, non-200 status, malformed body.
RemoteCheckFailed(resp) ==
    \/ IsRequestException(resp)
    \/ resp.kind = "Response" /\ resp.status_code # 200
    \/ Is200(resp) /\ MalformedBody(resp.text)

\* C1: every failure mode of the remote check, a 200 response with a
\* malformed body included, gives the Unknown result (None), not Count(0).
C1_FailureIsUnknown ==
    (Answered /\ RemoteCheckFailed(response)) => pwned_count = None

\* The first line of lines that is a record with suffix sfx, 0 if none.
FirstMatch(lines, sfx) ==
    LET hits == { i \in 1..Len(lines) : RecordMatches(lines[i], sfx) }
    IN  IF hits = {} THEN 0 ELSE CHOOSE i \in hits : \A j \in hits : i <= j

\* The count field of the first matching record is an integer literal for 0.
FirstMatchCountIsZero(lines, sfx) ==
    LET k == FirstMatch(lines, sfx)
        count == SplitColon(lines[k])[2]
    IN  k # 0 /\ IntAccepts(count) /\ IntValue(count) = 0

\* C2 as stated: a transport error, a timeout or a non-200 status gives
\* None, never Count(0), and Count(0) comes only from a 200 response in
\* which no record's suffix matches.
C2_ZeroOnlyWithoutMatch ==
    Answered =>
        /\ (IsRequestException(response) \/ ~Is200(response)) => pwned_count = None
        /\ pwned_count = Count(0) =>
              /\ Is200(response)
              /\ FirstMatch(SplitLines(response.text), Suffix(sha1)) = 0

\* C2 amended: a transport error, a timeout or a non-200 status gives
\* None, never Count(0), and Count(0) comes only from a 200 response in
\* which no record's suffix matches or the first matching record's count
\* parses to 0.
C2_ZeroOnlyWithoutMatchOrZeroCount ==
    Answered =>
        /\ (IsRequestException(response) \/ ~Is200(response)) => pwned_count = None
        /\ pwned_count = Count(0) =>
              /\ Is200(response)
              /\ \/ FirstMatch(SplitLines(response.text), Suffix(sha1)) = 0
                 \/ FirstMatchCountIsZero(SplitLines(response.text), Suffix(sha1))

\* The request timed out and the evaluation went on with None.
C2_Witness ==
    /\ Done
    /\ response.kind = "Timeout"
    /\ pwned_count = None
    /\ stage = "C"

\* C3: the breach result is None or a count n >= 0, whatever the response
\* body holds, and that value is what the scorer and the log line carry.
C3_CountNeverNegative ==
    /\ pwned_count # None => pwned_count[1] >= 0
    /\ (Answered /\ log # <<>>) =>
           log[Len(log)] = log_result(mask_password_for_log(password), score,
                                      strength_label, pwned_count)

\* Two passwords whose digests share the prefix 55BE9 and differ after it.
PrefixTwins == { <<"d","t","q">>, <<"d","v","e">> }

\* A request made from a 5-character prefix and from nothing else.
RequestForPrefix(prefix) ==
    [ url     |-> <<HIBP_RANGE_API>> \o prefix,
      headers |-> [UserAgent |-> USER_AGENT],
      timeout |-> REQUEST_TIMEOUT ]

\* C4: the request depends on the password only through the 5-character
\* prefix of its digest (it is the base URL followed by the prefix, the
\* client header and the timeout), and two passwords whose digests share
\* the prefix send identical requests.
C4_RequestRevealsPrefixOnly ==
    /\ \A i \in 1..Len(requests) :
          /\ Len(sha1) = 40
          /\ requests[i] = RequestForPrefix(SubSeq(sha1, 1, 5))
    /\ (pc = "awaiting" /\ password \in PrefixTwins) =>
          \A q \in PrefixTwins :
              PwnedRequest(Sha1Upper(q), USER_AGENT) = requests[1]

\* A request is out for a password that shares its prefix, and not its
\* suffix, with another password.
C4_Witness ==
    /\ pc = "awaiting"
    /\ Len(requests) = 1
    /\ password \in PrefixTwins
    /\ \E q \in PrefixTwins :
          /\ q # password
          /\ SubSeq(Sha1Upper(q), 1, 5) = SubSeq(sha1, 1, 5)
          /\ SubSeq(Sha1Upper(q), 6, 40) # SubSeq(sha1, 6, 40)

\* C5: the password field of every log line is the masked password, and
\* it is never the password itself.
C5_LogNeverHoldsPassword ==
    \A i \in 1..Len(log) :
        /\ log[i].masked_pw = mask_password_for_log(password)
        /\ log[i].masked_pw # password

\* str(0), as the log line of a Stage A evaluation shows it.
PWNED_ZERO == <<"p","w","n","e","d",":","0">>
PWNED_UNKNOWN == <<"p","w","n","e","d",":","u","n","k","n","o","w","n">>

\* C6: a non-empty known-weak password ends check_strength in Stage A with
\* score 0, the Very Weak label and a recorded breach signal of 0, and no
\* request is ever sent for it, whatever use_hibp is.
C6_StageATerminal ==
    (pc # "start" /\ password # <<>> /\ is_common_variant(password)) =>
        /\ Done
        /\ stage = "A"
        /\ score = 0
        /\ strength_label = LABEL_COMMON
        /\ requests = <<>>
        /\ response.kind = "none"
        /\ log # <<>> =>
              /\ log[1].pwned = PWNED_ZERO
              /\ log[1].score = <<"0","/","1","0">>
              /\ log[1].strength_label = LABEL_COMMON

\* A known-weak password was evaluated with the breach check asked for.
C6_Witness ==
    /\ Done
    /\ use_hibp
    /\ is_common_variant(password)
    /\ stage = "A"
    /\ log # <<>>

\* C7: for a password that is not known-weak, Count(n) with n > 0 ends the
\* evaluation with score 0, Very Weak and n recorded; None gives the score
\* and label that Count(0) gives for the password, recorded as "unknown".
C7_BreachSignalEffect ==
    (Done /\ password # <<>> /\ ~is_common_variant(password)) =>
        /\ (pwned_count # None /\ pwned_count[1] > 0) =>
              /\ stage = "B"
              /\ score = 0
              /\ strength_label = LABEL_BREACHED
              /\ log # <<>> =>
                    log[1].pwned = <<"p","w","n","e","d",":">>
                                     \o IntToStr(pwned_count[1])
        /\ (pwned_count = None \/ pwned_count = Count(0)) =>
              /\ stage = "C"
              /\ score = ScoringRules(password).score
              /\ strength_label = ScoringRules(password).strength_label
        /\ (pwned_count = None /\ log # <<>>) =>
              /\ log[1].pwned = PWNED_UNKNOWN
              /\ log[1].pwned # PWNED_ZERO
        /\ (~use_hibp \/ (Answered /\ ~Is200(response))) => pwned_count = None

\* The breach check failed and the structural score was logged.
C7_Witness ==
    /\ Done
    /\ use_hibp
    /\ IsRequestException(response)
    /\ pwned_count = None
    /\ stage = "C"
    /\ score > 0
    /\ log # <<>>

\* C8: a Stage C score is an even integer in 0..10, and the label is Strong
\* from 9 up, Moderate from 6 to 8, Weak below 6.
C8_StageCScoreEvenAndLabelled ==
    stage = "C" =>
        /\ score \in 0..10
        /\ score % 2 = 0
        /\ strength_label = IF score >= 9 THEN LABEL_STRONG
                            ELSE IF score >= 6 THEN LABEL_MODERATE
                            ELSE LABEL_WEAK

\* Stage C scored a password whose length earns the single point, and the
\* rounding made its 9 a 10.
C8_Witness ==
    /\ stage = "C"
    /\ Len(password) >= 8
    /\ Len(password) < 12
    /\ strength_label = LABEL_STRONG

P_AT_DOLLAR_W0RD_BANG == <<"P","@","$","$","w","0","r","d","!">>
P_AT_DOLLAR_W0RD == <<"P","@","$","$","w","0","r","d">>

\* C9 as stated: normalise_leet("P@$$w0rd!") is "password".
C9_NormalisesToPassword ==
    password = P_AT_DOLLAR_W0RD_BANG =>
        normalise_leet(password) = <<"p","a","s","s","w","o","r","d">>

\* C9 amended: normalise_leet("P@$$w0rd!") is "passwordi", the "!" being
\* mapped to "i"; "password" is normalise_leet("P@$$w0rd").
C9_NormalisesToPasswordi ==
    /\ password = P_AT_DOLLAR_W0RD_BANG =>
          normalise_leet(password) = <<"p","a","s","s","w","o","r","d","i">>
    /\ password = P_AT_DOLLAR_W0RD =>
          normalise_leet(password) = <<"p","a","s","s","w","o","r","d">>

\* check_strength("P@$$w0rd!") has run.
C9_Witness ==
    /\ Done
    /\ password = P_AT_DOLLAR_W0RD_BANG
    /\ stage = "A"

\* The character classes a password has.
Classes(pw) == << Search(pw, Range(UPPER)), Search(pw, Range(LOWER)),
                  Search(pw, Range(DIGITS)), Search(pw, SPECIALS) >>

\* C10: a Stage C score is 10 - 2 * (number of feedback tips); the label
\* is Strong exactly when there is no tip; a password of 8 characters or
\* more scores what any other such password with its classes scores,
\* whether their lengths are 8-11 or 12 and more.
C10_ScoreIsTenMinusTwicePerTip ==
    stage = "C" =>
        /\ score = 10 - 2 * Len(feedback)
        /\ strength_label = LABEL_STRONG <=> feedback = <<>>
        /\ \A q \in Passwords :
              (Len(password) >= 8 /\ Len(q) >= 8 /\ Classes(q) = Classes(password))
                  => ScoringRules(q).score = score

\* Stage C scored a password of 8-11 characters, and a password of 12 or
\* more has the same classes.
C10_Witness ==
    /\ stage = "C"
    /\ Len(password) \in 8..11
    /\ \E q \in Passwords : Len(q) >= 12 /\ Classes(q) = Classes(password)

=============================================================================
